---- MODULE Spec2Model ----
(***************************************************************************)
(* AutoAudio: the audio router of router.py (single process, driven by     *)
(* Qt signals from main.py) and of router-multi.py (a worker process       *)
(* driven by JSON commands on a local socket).                             *)
(*                                                                         *)
(* Every handler of the router is one action.  A handler is a function on  *)
(* a record s that holds everything the handler can touch: the router      *)
(* object (s.self), the audio stream objects it created (s.streams), the   *)
(* device catalog, the subscriptions (s.sig), the trace of the steps the    *)
(* handler has taken (s.trace) and the snapshots it has emitted            *)
(* (s.emitted).  A raised Python exception sets s.exc, and every later     *)
(* statement of the handler is skipped.  The properties apply a handler to *)
(* the current state and read the record it returns.                       *)
(***************************************************************************)
EXTENDS Integers, Sequences, FiniteSets, TLC

VARIABLES
    router,      \* the AutoAudioRouter object: its fields
    streams,     \* every QAudioSink / QAudioSource created so far, by id
    inputs,      \* QMediaDevices.audioInputs()
    outputs,     \* QMediaDevices.audioOutputs()
    signals,     \* process level: what has run, what is subscribed, the socket's buffer
    lib,         \* behaviour of the PySide6 build where releases differ
    sel,         \* DeviceSelector harness: a device list, a filter, the result
    pump         \* process_input: the block held, the peak history, what was read and written

vars == <<router, streams, inputs, outputs, signals, lib, sel, pump>>

(***************************************************************************)
(* Bounds of the model.                                                    *)
(***************************************************************************)
MaxStreams == 3      \* stream objects that exist at the same time
MaxInputs == 1       \* devices in the catalog's input list
MaxOutputs == 2      \* devices in the catalog's output list
MaxSelLen == 3       \* devices in a list handed to find_device alone
MaxBlocks == 3       \* blocks read by the pump between hot-swaps
MaxBoosted == 1002   \* blocks processed by the gain processor in one run

(***************************************************************************)
(* Strings are sequences of characters, so that Python's `in` on strings   *)
(* is substring search.                                                    *)
(***************************************************************************)
Dev(h, desc) == [h |-> h, desc |-> desc]
None == Dev(0, <<>>)

In1 == Dev(1, <<"V", "a">>)
In2 == Dev(2, <<"V", "b">>)
Out1 == Dev(3, <<"H", "p">>)
Out2 == Dev(4, <<"S", "p">>)

InputUniverse == {In1, In2}
OutputUniverse == {Out1, Out2}

DefaultInputFilter == <<"V">>
DefaultFallbackFilter == <<"S">>
DefaultPrimaryFilter == <<"H">>
NoMatchFilter == <<"X">>

InputFilters == {DefaultInputFilter, NoMatchFilter}
PrimaryFilters == {DefaultPrimaryFilter, NoMatchFilter}
FallbackFilters == {DefaultFallbackFilter, NoMatchFilter}

NoneText == <<"N", "o", "n", "e">>

\* the lists of at most n devices of U, in the host's enumeration order
ListsOf(U, n) ==
    UNION {{l \in [1..k -> U] : \A i, j \in 1..k : i < j => l[i].h < l[j].h} : k \in 0..n}

InputLists == ListsOf(InputUniverse, MaxInputs)
OutputLists == ListsOf(OutputUniverse, MaxOutputs)

(***************************************************************************)
(* Python and Qt plumbing.  Every statement is an operator on the handler  *)
(* record; a statement reached after an exception does nothing.            *)
(***************************************************************************)
E(ev, n) == [ev |-> ev, n |-> n]

Log(s, ev, n) == IF s.exc THEN s ELSE [s EXCEPT !.trace = Append(@, E(ev, n))]

\* an exception raised at source line n: the rest of the handler is skipped
Raise(s, n) == IF s.exc THEN s ELSE [s EXCEPT !.trace = Append(@, E("raise", n)), !.exc = TRUE]

\* a slot called by a signal emission: PySide prints what it raises
\* (sys.excepthook) and the emission returns normally
Swallow(s) == [s EXCEPT !.exc = FALSE]

\* stream states: "new" (constructed), "live" (started), "faulted" (the
\* device put it in StoppedState, stop() not called), "stopped" (stop() called)
Stream(kind, dev) == [kind |-> kind, dev |-> dev, state |-> "new", conn |-> "none"]

IsLive(st) == st.state \in {"live", "faulted"}

NewId(s) == Len(s.streams)

\* QAudioSink(device, format) / QAudioSource(device, format): None is no
\* QAudioDevice, the constructor raises TypeError
NewStream(s, kind, dev, line) ==
    IF s.exc THEN s
    ELSE IF dev = None THEN Raise(s, line)
    ELSE Log([s EXCEPT !.streams = Append(@, Stream(kind, dev))], "open", Len(s.streams) + 1)

\* stream.start(): nothing is connected to the new stream yet
StartStream(s, id) ==
    IF s.exc THEN s ELSE Log([s EXCEPT !.streams[id].state = "live"], "start", id)

\* stream.stateChanged.connect(slot)
Connect(s, id, slot) ==
    IF s.exc THEN s ELSE Log([s EXCEPT !.streams[id].conn = slot], "connect", id)

\* stream.stateChanged.disconnect(): with nothing connected PySide6 raises
\* RuntimeError in some releases and only warns in others
Disconnect(s, id, line) ==
    IF s.exc THEN s
    ELSE IF id = 0 THEN Raise(s, line)
    ELSE IF s.streams[id].conn = "none" /\ s.lib.disconnectRaises THEN Raise(s, line)
    ELSE Log([s EXCEPT !.streams[id].conn = "none"], "disconnect", id)

\* QAudio.State: a stream reports Active, Suspended, Stopped or Idle
ActiveState == 0
SuspendedState == ActiveState + 1
StoppedState == ActiveState + 2
IdleState == ActiveState + 3
States == {ActiveState, SuspendedState, StoppedState, IdleState}

(***************************************************************************)
(* DeviceSelector.                                                         *)
(***************************************************************************)
\* Python: filter in description
Contains(filter, desc) ==
    \E i \in 1..(Len(desc) - Len(filter) + 1) :
        SubSeq(desc, i, i + Len(filter) - 1) = filter

\* a plausible slip: the last match instead of the first
RECURSIVE find_device_last(_, _)
find_device_last(devices, filter) ==
    IF devices = <<>> THEN None
    ELSE IF Contains(filter, devices[Len(devices)].desc) THEN devices[Len(devices)]
    ELSE find_device_last(SubSeq(devices, 1, Len(devices) - 1), filter)

\* next((d for d in devices if filter in d.description()), None)
RECURSIVE find_device(_, _)
find_device(devices, filter) ==
    IF devices = <<>> THEN None
    ELSE IF Contains(filter, Head(devices).desc) THEN Head(devices)
    ELSE find_device(Tail(devices), filter)

Descriptions(devices) == [i \in 1..Len(devices) |-> devices[i].desc]

EmitSnapshot(s, snapshot) ==
    IF s.exc THEN s
    ELSE [s EXCEPT !.emitted = Append(@, snapshot), !.trace = Append(@, E("emit", 0))]

(***************************************************************************)
(* router.py: AutoAudioRouter.                                             *)
(***************************************************************************)
RECURSIVE StopStream(_, _, _), EmitStateChanged(_, _, _)
RECURSIVE sink_changed(_, _), source_changed(_, _), detect_device_multi(_)

\* stream.stop(): a stream that is not yet in StoppedState goes there and
\* emits stateChanged(StoppedState) to its slots before stop() returns
StopStream(s, id, line) ==
    IF s.exc THEN s
    ELSE IF id = 0 THEN Raise(s, line)
    ELSE IF s.streams[id].state = "live" /\ s.streams[id].conn # "none"
    THEN EmitStateChanged(Log([s EXCEPT !.streams[id].state = "stopped"], "stop", id),
                          id, StoppedState)
    ELSE Log([s EXCEPT !.streams[id].state = "stopped"], "stop", id)

\* the slot connected to stream id runs, inside the emission
CallSlot(s, slot, state) ==
    CASE slot = "sink_changed" -> sink_changed(s, state)
      [] slot = "source_changed" -> source_changed(s, state)
      [] slot = "detect_device" -> detect_device_multi(s)
      [] OTHER -> s

EmitStateChanged(s, id, state) ==
    Log(Swallow(CallSlot(Log(s, "slot", id), s.streams[id].conn, state)), "return", id)

\* a plausible slip: the old stream is stopped while still subscribed
close_sink_stop_first(s) ==
    IF s.exc \/ s.self.sink = 0 THEN s
    ELSE Disconnect(StopStream(s, s.self.sink, 38),
                    StopStream(s, s.self.sink, 38).self.sink, 37)

\* a plausible slip: the old stream is unsubscribed but never stopped
close_sink_no_stop(s) ==
    IF s.exc \/ s.self.sink = 0 THEN s
    ELSE Disconnect(s, s.self.sink, 37)

\* lines 36-38
close_sink(s) ==
    IF s.exc \/ s.self.sink = 0 THEN s
    ELSE StopStream(Disconnect(s, s.self.sink, 37), s.self.sink, 38)

\* line 39
assign_sink(s) == IF s.exc THEN s ELSE [s EXCEPT !.self.sink = NewId(s)]

\* line 40
start_sink(s) ==
    IF s.exc THEN s ELSE [StartStream(s, s.self.sink) EXCEPT !.self.outstream = s.self.sink]

\* line 41
connect_sink(s) == IF s.exc THEN s ELSE Connect(s, s.self.sink, "sink_changed")

\* lines 35-41
build_sink(s, device) ==
    connect_sink(start_sink(assign_sink(
        NewStream(close_sink(Log(s, "build_sink", device.h)), "sink", device, 39))))

\* lines 44-46
close_source(s) ==
    IF s.exc \/ s.self.source = 0 THEN s
    ELSE StopStream(Disconnect(s, s.self.source, 45), s.self.source, 46)

\* line 47
open_source(s) == IF s.exc THEN s ELSE NewStream(s, "source", s.self.input_device, 47)

assign_source(s) == IF s.exc THEN s ELSE [s EXCEPT !.self.source = NewId(s)]

\* lines 48-49
start_source(s) ==
    IF s.exc THEN s ELSE [StartStream(s, s.self.source) EXCEPT !.self.instream = s.self.source]

\* line 50
connect_source(s) == IF s.exc THEN s ELSE Connect(s, s.self.source, "source_changed")

\* lines 43-50
build_source(s) ==
    connect_source(start_source(assign_source(open_source(
        close_source(Log(s, "build_source", s.self.input_device.h))))))

DescriptionOrNone(device) == IF device = None THEN NoneText ELSE device.desc

\* lines 77-84: the dict handed to devices_changed
device_info(s) ==
    [input_devices |-> Descriptions(s.inputs),
     output_devices |-> Descriptions(s.outputs),
     input_device |-> DescriptionOrNone(s.self.input_device),
     primary_device |-> DescriptionOrNone(s.self.primary_device),
     fallback_device |-> DescriptionOrNone(s.self.fallback_device),
     primary_filter |-> s.self.primary_filter]

\* lines 53-58; line 56 calls description() on the device found, None included
detect_input(s, input_device) ==
    IF s.exc \/ input_device = s.self.input_device THEN s
    ELSE IF input_device = None THEN Raise(s, 56)
    ELSE build_source([s EXCEPT !.self.input_device = input_device])

\* a plausible slip: a changed fallback device is played even with the primary present
detect_fallback_always_builds(s, fallback_device, primary_device) ==
    IF s.exc \/ fallback_device = s.self.fallback_device THEN s
    ELSE IF fallback_device = None THEN Raise(s, 63)
    ELSE build_sink([s EXCEPT !.self.fallback_device = fallback_device], fallback_device)

\* lines 62-67; line 63 calls description() on the device found, None included
detect_fallback(s, fallback_device, primary_device) ==
    IF s.exc \/ fallback_device = s.self.fallback_device THEN s
    ELSE IF fallback_device = None THEN Raise(s, 63)
    ELSE IF primary_device = None
    THEN build_sink([s EXCEPT !.self.fallback_device = fallback_device], fallback_device)
    ELSE [s EXCEPT !.self.fallback_device = fallback_device]

\* lines 68-75
detect_primary(s, primary_device) ==
    IF s.exc \/ primary_device = s.self.primary_device THEN s
    ELSE IF primary_device # None
    THEN build_sink([s EXCEPT !.self.primary_device = primary_device], primary_device)
    ELSE build_sink([s EXCEPT !.self.primary_device = primary_device], s.self.fallback_device)

\* lines 59-75: both output devices are looked up before either is acted on
detect_outputs(s) ==
    IF s.exc THEN s
    ELSE detect_primary(
            detect_fallback(s, find_device(s.outputs, s.self.fallback_filter),
                               find_device(s.outputs, s.self.primary_filter)),
            find_device(s.outputs, s.self.primary_filter))

\* lines 77-85
emit_devices_changed(s) == IF s.exc THEN s ELSE EmitSnapshot(s, device_info(s))

\* lines 52-85
detect_device(s) ==
    emit_devices_changed(detect_outputs(
        detect_input(Log(s, "detect_device", 0), find_device(s.inputs, s.self.input_filter))))

TruthyOr(a, b) == IF a # None THEN a ELSE b

\* a plausible slip: the fallback device is preferred on a fault
sink_changed_fallback_first(s, state) ==
    IF ~(state = ActiveState \/ s.self.stopped)
    THEN build_sink(Log(s, "sink_changed", state),
                    TruthyOr(s.self.fallback_device, s.self.primary_device))
    ELSE Log(s, "sink_changed", state)

\* lines 87-89
sink_changed(s, state) ==
    IF ~(state = ActiveState \/ s.self.stopped)
    THEN build_sink(Log(s, "sink_changed", state),
                    TruthyOr(s.self.primary_device, s.self.fallback_device))
    ELSE Log(s, "sink_changed", state)

\* lines 91-93
source_changed(s, state) ==
    IF ~(state = ActiveState \/ s.self.stopped)
    THEN build_source(Log(s, "source_changed", state))
    ELSE Log(s, "source_changed", state)

set_input_filter(s, filter) == detect_device([s EXCEPT !.self.input_filter = filter])

set_fallback_filter(s, filter) == detect_device([s EXCEPT !.self.fallback_filter = filter])

set_primary_filter(s, filter) == detect_device([s EXCEPT !.self.primary_filter = filter])

\* lines 32-33
set_boost(s, boost) == [s EXCEPT !.self.boost = boost]

\* line 105
subscribe(s) == IF s.exc THEN s ELSE [s EXCEPT !.sig.subscribed = TRUE]

\* lines 98-105
run(s) == subscribe(detect_device(Log([s EXCEPT !.sig.started = TRUE], "run", 0)))

\* lines 107-110
stop(s) ==
    StopStream(
        StopStream(Log([s EXCEPT !.self.stopped = TRUE], "stop()", 0), s.self.source, 109),
        s.self.sink, 110)

(***************************************************************************)
(* router-multi.py: AutoAudioRouter.                                       *)
(***************************************************************************)
EmptyText == <<>>
NotConnectedText == <<"D", "n", "c">>     \* "Device not connected"

\* lines 69-73: the socket carries the snapshot when a control surface is connected
send_response(s, data) ==
    IF s.exc \/ s.self.socket = 0 THEN s
    ELSE IF s.sig.socketOpen THEN EmitSnapshot(s, data)
    ELSE Log(s, "write on closed socket", 0)

\* lines 60-67: description() is called on input_device and fallback_device, None included
send_device_info(s) ==
    IF s.exc THEN s
    ELSE IF s.self.input_device = None THEN Raise(s, 62)
    ELSE IF s.self.fallback_device = None THEN Raise(s, 64)
    ELSE send_response(s,
            [inputs |-> Descriptions(s.inputs),
             input |-> s.self.input_device.desc,
             outputs |-> Descriptions(s.outputs),
             fallback |-> s.self.fallback_device.desc,
             primary |-> IF s.self.primary_device # None
                         THEN s.self.primary_device.desc ELSE EmptyText,
             primary_filter |-> s.self.primary_filter])

\* lines 83, 97, 108: if old: old.stop()
stop_if(s, old, line) == IF s.exc \/ old = 0 THEN s ELSE StopStream(s, old, line)

\* lines 84-85
start_source_multi(s) ==
    IF s.exc THEN s ELSE [StartStream(s, s.self.source) EXCEPT !.self.instream = s.self.source]

\* line 86
connect_source_multi(s) == IF s.exc THEN s ELSE Connect(s, s.self.source, "detect_device")

\* lines 78-86; source is self.source as detect_device found it on entry
detect_input_multi(s, input_device, source) ==
    IF s.exc \/ input_device = s.self.input_device THEN s
    ELSE connect_source_multi(start_source_multi(stop_if(
            assign_source(NewStream([s EXCEPT !.self.input_device = input_device],
                                    "source", input_device, 82)),
            source, 83)))

\* lines 95-96, 103 and 106-107: self.sink = QAudioSink(device); self.sink.start()
open_sink_multi(s, device, line) == start_sink(assign_sink(NewStream(s, "sink", device, line)))

\* lines 90-97; sink is self.sink as detect_device found it on entry
detect_fallback_multi(s, fallback_device, primary_device, sink) ==
    IF s.exc \/ fallback_device = s.self.fallback_device THEN s
    ELSE IF primary_device = None
    THEN stop_if(open_sink_multi([s EXCEPT !.self.fallback_device = fallback_device],
                                 fallback_device, 95),
                 sink, 97)
    ELSE [s EXCEPT !.self.fallback_device = fallback_device]

\* lines 98-108
detect_primary_multi(s, primary_device, sink) ==
    IF s.exc \/ primary_device = s.self.primary_device THEN s
    ELSE IF primary_device # None
    THEN stop_if(open_sink_multi([s EXCEPT !.self.primary_device = primary_device],
                                 primary_device, 103),
                 sink, 108)
    ELSE stop_if(open_sink_multi([s EXCEPT !.self.primary_device = primary_device],
                                 s.self.fallback_device, 106),
                 sink, 108)

\* lines 87-108
detect_outputs_multi(s, sink) ==
    IF s.exc THEN s
    ELSE detect_primary_multi(
            detect_fallback_multi(s, find_device(s.outputs, s.self.fallback_filter),
                                     find_device(s.outputs, s.self.primary_filter), sink),
            find_device(s.outputs, s.self.primary_filter), sink)

\* lines 75-109
detect_device_multi(s) ==
    send_device_info(detect_outputs_multi(
        detect_input_multi(Log(s, "detect_device", 0),
                           find_device(s.inputs, s.self.input_filter), s.self.source),
        s.self.sink))

\* lines 124-126
start(s) == subscribe(detect_device_multi(Log([s EXCEPT !.sig.started = TRUE], "start", 0)))

\* lines 26-30
handle_connection(s) == [s EXCEPT !.self.socket = 1, !.sig.socketOpen = TRUE]

\* line 130
close_socket(s) ==
    IF s.exc THEN s
    ELSE IF s.self.socket = 0 THEN Raise(s, 130)
    ELSE Log([s EXCEPT !.sig.socketOpen = FALSE], "close", 0)

\* line 131
disconnect_source(s) == IF s.exc THEN s ELSE Disconnect(s, s.self.source, 131)

\* line 132
unsubscribe(s) ==
    IF s.exc THEN s
    ELSE IF ~s.sig.subscribed /\ s.lib.disconnectRaises THEN Raise(s, 132)
    ELSE Log([s EXCEPT !.sig.subscribed = FALSE], "unsubscribe", 0)

\* line 133
stop_source(s) == IF s.exc THEN s ELSE StopStream(s, s.self.source, 133)

\* line 134
stop_sink(s) == IF s.exc THEN s ELSE StopStream(s, s.self.sink, 134)

\* line 135
quit(s) == IF s.exc THEN s ELSE Log([s EXCEPT !.sig.quit = TRUE], "quit", 0)

\* a plausible slip: the streams are stopped with the subscriptions still in place
stop_multi_no_disconnect(s) ==
    quit(stop_sink(stop_source(close_socket(Log(s, "stop()", 0)))))

\* lines 128-135
stop_multi(s) ==
    quit(stop_sink(stop_source(unsubscribe(disconnect_source(
        close_socket(Log(s, "stop()", 0)))))))

(***************************************************************************)
(* Control messages.  A message is the string read from the socket: empty, *)
(* not JSON, or a JSON object with a command and the fields in `has`.      *)
(***************************************************************************)
Msg(raw, command, has, input, primary, fallback, primary_filter, enabled) ==
    [raw |-> raw, command |-> command, has |-> has, input |-> input,
     primary |-> primary, fallback |-> fallback,
     primary_filter |-> primary_filter, enabled |-> enabled]

EmptyMsg == Msg("empty", "", {}, EmptyText, EmptyText, EmptyText, EmptyText, FALSE)
InvalidMsg == Msg("invalid", "", {}, EmptyText, EmptyText, EmptyText, EmptyText, FALSE)
Command(c) == Msg("object", c, {}, EmptyText, EmptyText, EmptyText, EmptyText, FALSE)
UiChangeMsg(i, p, f) ==
    Msg("object", "ui_change", {"input", "primary", "fallback"}, i, p, f, EmptyText, FALSE)
FilterChangedMsg(p) ==
    Msg("object", "filter_changed", {"primary_filter"}, EmptyText, EmptyText, EmptyText, p, FALSE)
SetBoostMsg(b) ==
    Msg("object", "set_boost", {"enabled"}, EmptyText, EmptyText, EmptyText, EmptyText, b)

\* a ui_change that carries its input field only
PartialUiChangeMsg(i) ==
    Msg("object", "ui_change", {"input"}, i, EmptyText, EmptyText, EmptyText, FALSE)

Messages ==
    {EmptyMsg, InvalidMsg, Command("get_device_info"), Command("shutdown"),
     Command("ui_change"), Command("filter_changed"), Command("set_boost"),
     Command("other")}
    \cup {UiChangeMsg(i, p, f) : i \in InputFilters,
                                 p \in {DefaultPrimaryFilter, NotConnectedText},
                                 f \in FallbackFilters}
    \cup {FilterChangedMsg(p) : p \in PrimaryFilters}
    \cup {SetBoostMsg(b) : b \in BOOLEAN}

\* data[key]: KeyError when the object has no such field
Field(s, data, key, line) ==
    IF s.exc THEN s ELSE IF key \in data.has THEN s ELSE Raise(s, line)

Set(s, field, value) == IF s.exc THEN s ELSE [s EXCEPT !.self[field] = value]

\* a plausible slip: the boost command re-evaluates the devices
set_boost_command_redetect(s, data) ==
    detect_device_multi(Set(Field(s, data, "enabled", 53), "boost", data.enabled))

\* lines 52-54
set_boost_command(s, data) ==
    send_device_info(Set(Field(s, data, "enabled", 53), "boost", data.enabled))

\* lines 46-47
set_primary_unless_sentinel(s, data) ==
    IF s.exc \/ data.primary = NotConnectedText THEN s
    ELSE Set(s, "primary_filter", data.primary)

\* lines 43-48
ui_change_command(s, data) ==
    detect_device_multi(set_primary_unless_sentinel(
        Field(Set(Field(Set(Field(s, data, "input", 44), "input_filter", data.input),
                        data, "fallback", 45), "fallback_filter", data.fallback),
              data, "primary", 46),
        data))

\* lines 49-51
filter_changed_command(s, data) ==
    detect_device_multi(
        Set(Field(s, data, "primary_filter", 50), "primary_filter", data.primary_filter))

\* lines 40-58: match command
match_command(s, data) ==
    CASE data.command = "ui_change" -> ui_change_command(Log(s, "ui_change", 0), data)
      [] data.command = "filter_changed" ->
            filter_changed_command(Log(s, "filter_changed", 0), data)
      [] data.command = "set_boost" -> set_boost_command(Log(s, "set_boost", 0), data)
      [] data.command = "get_device_info" -> send_device_info(Log(s, "get_device_info", 0))
      [] data.command = "shutdown" -> stop_multi(Log(s, "shutdown", 0))
      [] OTHER -> Log(s, "no case", 0)

\* lines 34-39: readString, the empty string and json.loads
read_one(s) ==
    IF Head(s.sig.sockbuf).raw = "invalid"
    THEN Raise([s EXCEPT !.sig.sockbuf = Tail(@)], 39)
    ELSE IF Head(s.sig.sockbuf).raw = "empty"
    THEN Log([s EXCEPT !.sig.sockbuf = Tail(@)], "empty data received", 0)
    ELSE match_command([s EXCEPT !.sig.sockbuf = Tail(@)], Head(s.sig.sockbuf))

\* lines 32-58: while not self.stream.atEnd()
RECURSIVE handle_command(_)
handle_command(s) ==
    IF s.exc \/ s.sig.sockbuf = <<>> \/ ~s.sig.socketOpen THEN s
    ELSE IF Head(s.sig.sockbuf).raw = "empty" THEN read_one(s)
    ELSE handle_command(read_one(s))

(***************************************************************************)
(* process_input: the pump and the gain processor.  A block is what one    *)
(* read returns: its samples (int16) and, for the bookkeeping of the       *)
(* properties, the number k of the read that returned it.                  *)
(***************************************************************************)
HistoryLen == 1000            \* np.zeros(1000, dtype=np.int16), % 1000
Int16Max == 32767             \* dtype=np.int16
Int16Min == -Int16Max - 1
FullScale == 32767            \* 32767 / peak_level
Threshold == 10369            \* peak_level > 10369
DefaultGainNum == 316         \* 3.16 = 316 / 100
DefaultGainDen == 100

Block(k, samples) == [k |-> k, samples |-> samples]

\* self.data = bytes()
EmptyBlock == Block(0, <<>>)

\* a float64 outside the int16 range cast by astype(np.int16): undefined in
\* C, the builds either keep the low 16 bits or saturate
CastOutcomes == {"wrap", "saturate"}

\* a write to the QIODevice of a sink that was stopped: the closed device
\* refuses the bytes (write returns -1) or the wrapper raises RuntimeError
DeadWriteOutcomes == {"refused", "raises"}

\* __init__ lines 12-13 and 17; boosted, readlog and written are the bookkeeping
NoPump ==
    [data |-> EmptyBlock,
     peak_history |-> [i \in 0..(HistoryLen - 1) |-> 0],
     history_index |-> 0,
     cast |-> "wrap", variant |-> "router",
     boosted |-> 0, readlog |-> <<>>, written |-> <<>>]

Max(S) == CHOOSE x \in S : \A y \in S : y <= x

\* np.abs on int16: -32768 has no positive counterpart and stays -32768
Abs16(x) == IF x = Int16Min THEN Int16Min ELSE IF x < 0 THEN -x ELSE x

\* np.max(np.abs(np_data))
block_peak(samples) == Max({Abs16(samples[i]) : i \in 1..Len(samples)})

\* np.max(self.peak_history)
peak_level(peak_history) == Max({peak_history[i] : i \in DOMAIN peak_history})

\* 32767 / peak_level if peak_level > 10369 else 3.16, as a fraction
actual_gain(level) ==
    IF level > Threshold THEN [num |-> FullScale, den |-> level]
    ELSE [num |-> DefaultGainNum, den |-> DefaultGainDen]

\* the integer part of num / den (den > 0), towards zero; for the samples
\* and peaks of this model the float64 product has the same integer part
Trunc(num, den) == IF num >= 0 THEN num \div den ELSE -((-num) \div den)

Wrap16(v) == ((v - Int16Min) % (2 * (Int16Max + 1))) + Int16Min

Clamp16(v) == IF v > Int16Max THEN Int16Max ELSE IF v < Int16Min THEN Int16Min ELSE v

\* float64 -> int16
astype_int16(v, cast) ==
    IF v >= Int16Min /\ v <= Int16Max THEN v
    ELSE IF cast = "wrap" THEN Wrap16(v) ELSE Clamp16(v)

\* (np_data * actual_gain).astype(np.int16)
scaled(samples, gain, cast) ==
    [i \in 1..Len(samples) |-> astype_int16(Trunc(samples[i] * gain.num, gain.den), cast)]

\* self.outstream.write(block): router.py line 113, router-multi.py line 150
write_block(s, block, line, dead) ==
    IF s.exc THEN s
    ELSE IF s.self.outstream = 0 THEN Raise(s, line)
    ELSE IF s.streams[s.self.outstream].state \in {"live", "faulted"}
    THEN Log([s EXCEPT !.pump.written = Append(@, block)], "write", block.k)
    ELSE IF dead = "raises" THEN Raise(s, line)
    ELSE Log(s, "write refused", block.k)

\* self.instream.read(n): router.py line 114, router-multi.py lines 139, 148
read_block(s, block) ==
    IF s.exc THEN s
    ELSE Log([s EXCEPT !.pump.data = block, !.pump.readlog = Append(@, block)],
             "read", block.k)

\* lines 116-117: np.max of an empty array raises ValueError
store_peak(s, line) ==
    IF s.exc THEN s
    ELSE IF s.pump.data.samples = <<>> THEN Raise(s, line)
    ELSE Log([s EXCEPT !.pump.peak_history[s.pump.history_index] =
                            block_peak(s.pump.data.samples),
                       !.pump.boosted = @ + 1],
             "peak", s.pump.history_index)

\* a plausible slip: the cursor is not wrapped
advance_index_no_wrap(s) ==
    IF s.exc THEN s ELSE [s EXCEPT !.pump.history_index = s.pump.history_index + 1]

\* line 118
advance_index(s) ==
    IF s.exc THEN s
    ELSE [s EXCEPT !.pump.history_index = (s.pump.history_index + 1) % HistoryLen]

\* lines 119-121
apply_gain(s) ==
    IF s.exc THEN s
    ELSE [s EXCEPT !.pump.data.samples =
            scaled(s.pump.data.samples, actual_gain(peak_level(s.pump.peak_history)),
                   s.pump.cast)]

\* lines 115-121
boost_block(s, line) ==
    IF s.exc \/ ~s.self.boost THEN s
    ELSE apply_gain(advance_index(store_peak(s, line)))

\* router.py lines 112-121
process_input(s, block, dead) ==
    boost_block(read_block(write_block(Log(s, "process_input", block.k),
                                       s.pump.data, 113, dead),
                           block),
                117)

\* router-multi.py line 150
write_multi(s, dead) == write_block(s, s.pump.data, 150, dead)

\* router-multi.py lines 137-150: processed_data is pump.data
process_input_multi(s, block, dead) ==
    write_multi(boost_block(read_block(Log(s, "process_input", block.k), block), 141), dead)

(***************************************************************************)
(* The state machine of router.py (Spec).                                  *)
(***************************************************************************)
\* AutoAudioRouter.__init__ (router.py lines 8-18, router-multi.py lines 13-24)
\* and setup (router-multi.py line 120)
NewRouter ==
    [boost |-> FALSE, stopped |-> FALSE,
     input_filter |-> DefaultInputFilter,
     fallback_filter |-> DefaultFallbackFilter,
     primary_filter |-> DefaultPrimaryFilter,
     socket |-> 0,
     sink |-> 0, source |-> 0, instream |-> 0, outstream |-> 0,
     primary_device |-> None, fallback_device |-> None, input_device |-> None]

NoSignals ==
    [started |-> FALSE, subscribed |-> FALSE, socketOpen |-> FALSE,
     sockbuf |-> <<>>, quit |-> FALSE, dead |-> FALSE]

Libs == [disconnectRaises : BOOLEAN]

NoSel == [devices |-> <<>>, filter |-> <<>>, result |-> None, done |-> FALSE]

Init ==
    /\ router = NewRouter
    /\ streams = <<>>
    /\ inputs \in InputLists
    /\ outputs \in OutputLists
    /\ signals = NoSignals
    /\ lib \in Libs
    /\ sel = NoSel
    /\ pump = NoPump

\* the handler's view of the current state
Cur(op, arg) ==
    [self |-> router, streams |-> streams, inputs |-> inputs, outputs |-> outputs,
     sig |-> signals, trace |-> <<E(op, arg)>>, emitted |-> <<>>, exc |-> FALSE,
     lib |-> lib, pump |-> pump]

\* a stream that was stopped and that no field of the router refers to can
\* do nothing any more: it leaves the model, the others keep their order
Handles(s) == {s.self.sink, s.self.source, s.self.instream, s.self.outstream}

Kept(s) == {i \in 1..Len(s.streams) : s.streams[i].state # "stopped" \/ i \in Handles(s)}

Rank(K, i) == IF i = 0 THEN 0 ELSE Cardinality({j \in K : j <= i})

Compact(s) ==
    LET K == Kept(s)
        old(k) == CHOOSE i \in K : Rank(K, i) = k
    IN [s EXCEPT !.streams = [k \in 1..Cardinality(K) |-> s.streams[old(k)]],
                 !.self.sink = Rank(K, @), !.self.source = Rank(K, @),
                 !.self.instream = Rank(K, @), !.self.outstream = Rank(K, @)]

Commit(s) ==
    LET c == Compact(s)
    IN /\ Len(c.streams) <= MaxStreams
       /\ router' = c.self
       /\ streams' = c.streams
       /\ signals' = c.sig

\* the thread starts (main.py line 38)
Run ==
    /\ ~signals.started
    /\ Commit(run(Cur("run", 0)))
    /\ UNCHANGED <<inputs, outputs, lib, sel, pump>>

SetInputFilter ==
    /\ signals.started
    /\ \E f \in InputFilters : Commit(set_input_filter(Cur("set_input_filter", 0), f))
    /\ UNCHANGED <<inputs, outputs, lib, sel, pump>>

SetPrimaryFilter ==
    /\ signals.started
    /\ \E f \in PrimaryFilters : Commit(set_primary_filter(Cur("set_primary_filter", 0), f))
    /\ UNCHANGED <<inputs, outputs, lib, sel, pump>>

SetFallbackFilter ==
    /\ signals.started
    /\ \E f \in FallbackFilters : Commit(set_fallback_filter(Cur("set_fallback_filter", 0), f))
    /\ UNCHANGED <<inputs, outputs, lib, sel, pump>>

SetBoost ==
    /\ signals.started
    /\ \E b \in BOOLEAN : Commit(set_boost(Cur("set_boost", 0), b))
    /\ UNCHANGED <<inputs, outputs, lib, sel, pump>>

\* the host's input devices change: nobody is told
InputsChange ==
    /\ ~signals.quit /\ ~signals.dead
    /\ \E l \in InputLists : l # inputs /\ inputs' = l
    /\ UNCHANGED <<router, streams, outputs, signals, lib, sel, pump>>

\* router.py line 105: audioOutputsChanged runs detect_device
audioOutputsChanged(s) == IF s.sig.subscribed THEN detect_device(s) ELSE s

\* the host's output devices change: audioOutputsChanged is emitted
OutputsChange ==
    /\ \E l \in OutputLists :
        /\ l # outputs
        /\ outputs' = l
        /\ Commit(audioOutputsChanged([Cur("audioOutputsChanged", 0) EXCEPT !.outputs = l]))
    /\ UNCHANGED <<inputs, lib, sel, pump>>

\* a started stream reports a state; StoppedState is a fault of the device
Report(s, id, state) ==
    EmitStateChanged(
        IF state = StoppedState THEN [s EXCEPT !.streams[id].state = "faulted"] ELSE s,
        id, state)

\* the streams that can report: started, not in StoppedState, with a slot connected
Reporting(kind) ==
    {id \in 1..Len(streams) :
        /\ streams[id].kind = kind
        /\ streams[id].state = "live"
        /\ streams[id].conn # "none"}

SinkStateChanged ==
    /\ ~signals.quit /\ ~signals.dead
    /\ \E id \in Reporting("sink"), state \in States :
        Commit(Report(Cur("stateChanged", state), id, state))
    /\ UNCHANGED <<inputs, outputs, lib, sel, pump>>

SourceStateChanged ==
    /\ ~signals.quit /\ ~signals.dead
    /\ \E id \in Reporting("source"), state \in States :
        Commit(Report(Cur("stateChanged", state), id, state))
    /\ UNCHANGED <<inputs, outputs, lib, sel, pump>>

\* the thread finishes (main.py line 39)
Stop ==
    /\ signals.started /\ ~router.stopped
    /\ Commit(stop(Cur("finished", 0)))
    /\ UNCHANGED <<inputs, outputs, lib, sel, pump>>

Next ==
    \/ Run
    \/ SetInputFilter
    \/ SetPrimaryFilter
    \/ SetFallbackFilter
    \/ SetBoost
    \/ InputsChange
    \/ OutputsChange
    \/ SinkStateChanged
    \/ SourceStateChanged
    \/ Stop

Spec == Init /\ [][Next]_vars

(***************************************************************************)
(* The state machine of router-multi.py (SpecMulti).                       *)
(***************************************************************************)
Alive == signals.started /\ ~signals.quit /\ ~signals.dead

\* lines 152-157: start() runs before app.exec(); what it raises ends the process
main(s) == [start(s) EXCEPT !.sig.dead = start(s).exc]

Main ==
    /\ ~signals.started
    /\ Commit(main(Cur("main", 0)))
    /\ UNCHANGED <<inputs, outputs, lib, sel, pump>>

\* the control surface connects to the pipe
HandleConnection ==
    /\ Alive /\ router.socket = 0
    /\ Commit(handle_connection(Cur("newConnection", 0)))
    /\ UNCHANGED <<inputs, outputs, lib, sel, pump>>

\* a message arrives on the socket: readyRead runs handle_command
ReadyRead ==
    /\ Alive /\ signals.socketOpen
    /\ \E m \in Messages :
        Commit(handle_command([Cur("readyRead", 0) EXCEPT !.sig.sockbuf = Append(@, m)]))
    /\ UNCHANGED <<inputs, outputs, lib, sel, pump>>

\* router-multi.py line 126: audioOutputsChanged runs detect_device
audioOutputsChanged_multi(s) == IF s.sig.subscribed THEN detect_device_multi(s) ELSE s

OutputsChangeMulti ==
    /\ Alive
    /\ \E l \in OutputLists :
        /\ l # outputs
        /\ outputs' = l
        /\ Commit(audioOutputsChanged_multi(
                    [Cur("audioOutputsChanged", 0) EXCEPT !.outputs = l]))
    /\ UNCHANGED <<inputs, lib, sel, pump>>

NextMulti ==
    \/ Main
    \/ HandleConnection
    \/ ReadyRead
    \/ InputsChange
    \/ OutputsChangeMulti
    \/ SourceStateChanged

SpecMulti == Init /\ [][NextMulti]_vars

(***************************************************************************)
(* The pump of router.py between hot-swaps (SpecPump): the router is run,  *)
(* the catalog changes, streams fault, data arrives.  Boost stays off.     *)
(***************************************************************************)
PumpSamples == {<<100, -50>>, <<7>>}

InitPump ==
    /\ router = NewRouter
    /\ streams = <<>>
    /\ inputs \in InputLists
    /\ outputs \in OutputLists
    /\ signals = NoSignals
    /\ lib \in Libs
    /\ sel = NoSel
    /\ pump = NoPump

CommitPump(s) == Commit(s) /\ pump' = s.pump

\* router.py line 49: the started instream has data
HasData == router.instream # 0 /\ streams[router.instream].state = "live"

DataReady ==
    /\ signals.started /\ HasData
    /\ Len(pump.readlog) < MaxBlocks
    /\ \E samples \in PumpSamples, dead \in DeadWriteOutcomes :
        CommitPump(process_input(Cur("readyRead", 0),
                                 Block(Len(pump.readlog) + 1, samples), dead))
    /\ UNCHANGED <<inputs, outputs, lib, sel>>

NextPump ==
    \/ Run
    \/ OutputsChange
    \/ SinkStateChanged
    \/ SourceStateChanged
    \/ Stop
    \/ DataReady

SpecPump == InitPump /\ [][NextPump]_vars

(***************************************************************************)
(* The gain processor on a long signal (SpecGain): the router runs with    *)
(* both streams open and boost on, and blocks arrive.  The signal is free  *)
(* at the first block of every round of the history and quiet in between.  *)
(***************************************************************************)
QuietSamples == <<100, -50>>

GainSamples == {QuietSamples, <<10369>>, <<20000, 5>>, <<-32768>>, <<32767, -3>>}

\* the handler record of a router that was just constructed
Boot(in, out, l, p) ==
    [self |-> NewRouter, streams |-> <<>>, inputs |-> in, outputs |-> out,
     sig |-> NoSignals, trace |-> <<>>, emitted |-> <<>>, exc |-> FALSE,
     lib |-> l, pump |-> p]

\* router.py: run, then the boost box is ticked (main.py line 26)
Booted == set_boost(run(Boot(<<In1>>, <<Out1, Out2>>, [disconnectRaises |-> FALSE], NoPump)), TRUE)

\* router-multi.py: started with the argument "boost" (line 154)
BootedMulti ==
    main([Boot(<<In1>>, <<Out1, Out2>>, [disconnectRaises |-> FALSE], NoPump)
            EXCEPT !.self.boost = TRUE])

InitGain ==
    /\ \E v \in {"router", "multi"} :
        /\ router = (IF v = "router" THEN Booted ELSE BootedMulti).self
        /\ streams = (IF v = "router" THEN Booted ELSE BootedMulti).streams
        /\ signals = (IF v = "router" THEN Booted ELSE BootedMulti).sig
        /\ \E c \in CastOutcomes : pump = [NoPump EXCEPT !.variant = v, !.cast = c]
    /\ inputs = <<In1>>
    /\ outputs = <<Out1, Out2>>
    /\ lib = [disconnectRaises |-> FALSE]
    /\ sel = NoSel

\* what the input stream can deliver next
Offered == IF pump.boosted % HistoryLen = 0 THEN GainSamples ELSE {QuietSamples}

\* the long run keeps no log of the blocks
CommitGain(s) ==
    /\ pump' = [s.pump EXCEPT !.readlog = <<>>, !.written = <<>>]
    /\ UNCHANGED <<router, streams, inputs, outputs, signals, lib, sel>>

GainData ==
    /\ pump.variant = "router" /\ HasData /\ pump.boosted < MaxBoosted
    /\ \E samples \in Offered :
        CommitGain(process_input(Cur("readyRead", 0), Block(0, samples), "refused"))

GainDataMulti ==
    /\ pump.variant = "multi" /\ HasData /\ pump.boosted < MaxBoosted
    /\ \E samples \in Offered :
        CommitGain(process_input_multi(Cur("readyRead", 0), Block(0, samples), "refused"))

NextGain ==
    \/ GainData
    \/ GainDataMulti

SpecGain == InitGain /\ [][NextGain]_vars

(***************************************************************************)
(* Shutdown of either program (SpecStop): router.py run by main.py, or     *)
(* router-multi.py with its SIGINT handler.  pump.variant tells which of   *)
(* the two programs is running.                                            *)
(***************************************************************************)
InitStop ==
    /\ router = NewRouter
    /\ streams = <<>>
    /\ inputs \in InputLists
    /\ outputs \in OutputLists
    /\ signals = NoSignals
    /\ lib \in Libs
    /\ sel = NoSel
    /\ pump \in {[NoPump EXCEPT !.variant = v] : v \in {"router", "multi"}}

\* router-multi.py line 121: SIGINT runs stop()
Interrupt ==
    /\ Alive
    /\ Commit(stop_multi(Cur("SIGINT", 0)))
    /\ UNCHANGED <<inputs, outputs, lib, sel, pump>>

NextStop ==
    \/ pump.variant = "router" /\ Next
    \/ pump.variant = "multi" /\ NextMulti
    \/ pump.variant = "multi" /\ Interrupt

SpecStop == InitStop /\ [][NextStop]_vars

(***************************************************************************)
(* DeviceSelector alone (SpecSelect): find_device on every short list.     *)
(***************************************************************************)
SelUniverse ==
    {Dev(1, <<"a", "b">>), Dev(2, <<"a", "b">>), Dev(3, <<"b">>), Dev(4, <<>>),
     Dev(5, <<"b", "a">>)}

SelFilters == {<<>>, <<"a">>, <<"b">>, <<"a", "b">>, <<"b", "a">>, <<"a", "b", "a">>, <<"c">>}

SelLists ==
    UNION {{l \in [1..k -> SelUniverse] : \A i, j \in 1..k : i # j => l[i] # l[j]} :
            k \in 0..MaxSelLen}

InitSelect ==
    /\ router = NewRouter
    /\ streams = <<>>
    /\ inputs = <<>>
    /\ outputs = <<>>
    /\ signals = NoSignals
    /\ lib \in Libs
    /\ sel \in [devices : SelLists, filter : SelFilters, result : {None}, done : {FALSE}]
    /\ pump = NoPump

Select ==
    /\ ~sel.done
    /\ sel' = [sel EXCEPT !.result = find_device(sel.devices, sel.filter), !.done = TRUE]
    /\ UNCHANGED <<router, streams, inputs, outputs, signals, lib, pump>>

NextSelect == Select

SpecSelect == InitSelect /\ [][NextSelect]_vars

(***************************************************************************)
(* Properties.  P holds of the outcome of every handler of a kind that can *)
(* run in the current state.                                               *)
(***************************************************************************)
LiveSinks(ss) == {i \in 1..Len(ss) : ss[i].kind = "sink" /\ IsLive(ss[i])}

Has(tr, ev) == \E i \in 1..Len(tr) : tr[i].ev = ev

Count(tr, ev) == Cardinality({i \in 1..Len(tr) : tr[i].ev = ev})

\* every re-evaluation trigger of router.py: the initial run, a filter
\* change, the catalog's output-change event
EveryReEvaluation(P(_)) ==
    /\ ~signals.started => P(run(Cur("run", 0)))
    /\ signals.started =>
        /\ \A f \in InputFilters : P(set_input_filter(Cur("set_input_filter", 0), f))
        /\ \A f \in PrimaryFilters : P(set_primary_filter(Cur("set_primary_filter", 0), f))
        /\ \A f \in FallbackFilters : P(set_fallback_filter(Cur("set_fallback_filter", 0), f))
    /\ signals.subscribed =>
        \A l \in OutputLists :
            P(detect_device([Cur("audioOutputsChanged", 0) EXCEPT !.outputs = l]))

\* every state-change notification a stream of router.py can deliver
EveryReport(kind, P(_, _, _)) ==
    \A id \in Reporting(kind), state \in States :
        P(Report(Cur("stateChanged", state), id, state), id, state)

\* C1: in router.py at most one output stream that was started has not been
\* stopped, after any sequence of re-evaluations, filter changes, stream
\* faults and stop.
C1_AtMostOneLiveSink == Cardinality(LiveSinks(streams)) <= 1

\* a fault of the live output stream is answered by a rebuild, after which
\* one live output stream exists: the new one
C1_Witness ==
    /\ router.sink # 0 /\ ~router.stopped
    /\ router.sink \in Reporting("sink")
    /\ router.primary_device # None /\ router.fallback_device # None
    /\ LET r == Report(Cur("stateChanged", IdleState), router.sink, IdleState)
       IN /\ LiveSinks(r.streams) = {r.self.sink}
          /\ r.self.sink # router.sink

SinkTargets(r, device) ==
    /\ r.self.sink # 0
    /\ IsLive(r.streams[r.self.sink])
    /\ r.streams[r.self.sink].dev = device

PrimaryPrecedence(r) ==
    LET primary == find_device(r.outputs, r.self.primary_filter)
        fallback == find_device(r.outputs, r.self.fallback_filter)
    IN /\ primary # None => SinkTargets(r, primary)
       /\ primary = None /\ fallback # None => SinkTargets(r, fallback)

\* C2: in router.py, when a re-evaluation ends in a running router, the
\* output stream targets the device the primary filter matches, or, when it
\* matches none, the device the fallback filter matches, whatever the input
\* list contains.
C2_PrimaryPrecedence == ~router.stopped => EveryReEvaluation(PrimaryPrecedence)

\* the handler record as the next handler finds it
Fresh(r) == [r EXCEPT !.trace = <<>>, !.emitted = <<>>, !.exc = FALSE]

SameRouting(r, q) ==
    /\ q.self.input_device = r.self.input_device
    /\ q.self.primary_device = r.self.primary_device
    /\ q.self.fallback_device = r.self.fallback_device
    /\ q.self.sink = r.self.sink /\ q.self.source = r.self.source
    /\ q.streams = r.streams

Idempotent(r) ==
    LET again == detect_device(Fresh(r))
    IN /\ SameRouting(r, again)
       /\ Len(again.emitted) = 1
       /\ again.emitted = r.emitted

\* C3: a second detect_device with the same catalog and filters leaves the
\* resolved devices and both stream handles as the first run left them, opens
\* and closes no stream, and emits a snapshot equal to the first one.
C3_Idempotent == EveryReEvaluation(Idempotent)

Completed(r) == ~r.exc

EveryReEvaluationMulti(P(_)) ==
    /\ ~signals.started => P(main(Cur("main", 0)))
    /\ Alive /\ signals.socketOpen =>
        \A m \in Messages :
            m.command \in {"ui_change", "filter_changed"} =>
                P(handle_command([Cur("readyRead", 0) EXCEPT !.sig.sockbuf = <<m>>]))
    /\ Alive /\ signals.subscribed =>
        \A l \in OutputLists :
            P(detect_device_multi([Cur("audioOutputsChanged", 0) EXCEPT !.outputs = l]))
    /\ Alive =>
        \A id \in Reporting("source"), state \in States :
            P(Report(Cur("stateChanged", state), id, state))

Matches(devices, filter) == {i \in 1..Len(devices) : Contains(filter, devices[i].desc)}

C4_WitnessNull ==
    sel.done /\ sel.devices # <<>> /\ Matches(sel.devices, sel.filter) = {} /\ sel.result = None

OneSnapshotAtEnd(r) ==
    /\ Len(r.emitted) = 1
    /\ r.trace[Len(r.trace)].ev = "emit"

\* C5: every re-evaluation trigger (initial run, catalog output-change event,
\* set_input_filter, set_primary_filter, set_fallback_filter) ends with
\* exactly one snapshot emitted, whether or not anything changed.
C5_OneSnapshotPerTrigger == EveryReEvaluation(OneSnapshotAtEnd)

NoMatch(r) ==
    /\ find_device(r.inputs, r.self.input_filter) = None
    /\ find_device(r.outputs, r.self.primary_filter) = None
    /\ find_device(r.outputs, r.self.fallback_filter) = None

AllUnresolvedMulti(r) ==
    \A i \in 1..Len(r.emitted) :
        /\ r.emitted[i].input = EmptyText
        /\ r.emitted[i].primary = EmptyText
        /\ r.emitted[i].fallback = EmptyText

DegradedButRunningMulti(r) ==
    NoMatch(r) => Completed(r) /\ ~r.sig.dead /\ ~r.sig.quit /\ AllUnresolvedMulti(r)

\* C6: when the three filters match no device, the re-evaluation completes
\* without raising, the snapshot reports the three slots as unresolved and
\* the router keeps running (checked on router-multi.py).
C6_NoMatchIsNotAnError == EveryReEvaluationMulti(DegradedButRunningMulti)

\* what a boost toggle may change of the state s it started from
BoostOnly(s, r) ==
    /\ r.self = [s.self EXCEPT !.boost = r.self.boost]
    /\ r.streams = s.streams
    /\ r.sig.subscribed = s.sig.subscribed /\ r.sig.quit = s.sig.quit
    /\ ~Has(r.trace, "detect_device")
    /\ ~Has(r.trace, "open") /\ ~Has(r.trace, "stop")

BoostCommands == {m \in Messages : m.command = "set_boost"}

\* C7: a boost toggle (set_boost in router.py, the set_boost command in
\* router-multi.py) changes the boost flag and nothing else: no
\* re-evaluation runs, the streams, the resolved devices and the filters
\* stay as they were.
C7_BoostOnly ==
    /\ \A b \in BOOLEAN :
        /\ BoostOnly(Cur("set_boost", 0), set_boost(Cur("set_boost", 0), b))
        /\ set_boost(Cur("set_boost", 0), b).self.boost = b
    /\ Alive /\ signals.socketOpen =>
        \A m \in BoostCommands :
            LET s == [Cur("readyRead", 0) EXCEPT !.sig.sockbuf = <<m>>]
            IN /\ BoostOnly(s, handle_command(s))
               /\ handle_command(s).self.boost =
                    IF "enabled" \in m.has THEN m.enabled ELSE router.boost

\* boost was switched on with both streams live; switching it off leaves them
C7_Witness ==
    /\ Alive /\ signals.socketOpen /\ router.boost
    /\ router.sink # 0 /\ router.source # 0
    /\ IsLive(streams[router.sink]) /\ IsLive(streams[router.source])
    /\ LET s == [Cur("readyRead", 0) EXCEPT !.sig.sockbuf = <<SetBoostMsg(FALSE)>>]
       IN ~handle_command(s).self.boost /\ handle_command(s).streams = streams

SameDevicesAndFilters(a, b) ==
    /\ a.input_device = b.input_device
    /\ a.primary_device = b.primary_device
    /\ a.fallback_device = b.fallback_device
    /\ a.input_filter = b.input_filter
    /\ a.primary_filter = b.primary_filter
    /\ a.fallback_filter = b.fallback_filter

NoReEvaluation(r) ==
    /\ ~Has(r.trace, "detect_device") /\ ~Has(r.trace, "raise")
    /\ r.emitted = <<>>
    /\ SameDevicesAndFilters(r.self, router)

\* the stream id was replaced by a started, subscribed stream on device
RebuiltOn(r, id, new, kind, device, slot) ==
    /\ new # id /\ new \in 1..Len(r.streams)
    /\ r.streams[new] = [kind |-> kind, dev |-> device, state |-> "live", conn |-> slot]
    /\ r.streams[id].state = "stopped" /\ r.streams[id].conn = "none"

SinkFaultRebuilds(r, id, state) ==
    ~router.stopped /\ id = router.sink /\ state # ActiveState =>
        /\ RebuiltOn(r, id, r.self.sink, "sink",
                     TruthyOr(router.primary_device, router.fallback_device), "sink_changed")
        /\ r.self.sink # 0 /\ r.streams[r.self.sink].dev # None
        /\ r.self.source = router.source
        /\ NoReEvaluation(r)

SourceFaultRebuilds(r, id, state) ==
    ~router.stopped /\ id = router.source /\ state # ActiveState =>
        /\ RebuiltOn(r, id, r.self.source, "source", router.input_device, "source_changed")
        /\ r.streams[r.self.source].dev # None
        /\ r.self.sink = router.sink
        /\ NoReEvaluation(r)

\* C8: in router.py, while the router is not stopped, a state-change
\* notification of the current output stream to a state other than Active
\* rebuilds the output stream against primary_device if it is non-null and
\* otherwise against fallback_device, one of the current input stream
\* rebuilds the input stream against input_device; neither runs a
\* re-evaluation nor changes the resolved devices or the filters.
C8_FaultRebuilds ==
    /\ EveryReport("sink", SinkFaultRebuilds)
    /\ EveryReport("source", SourceFaultRebuilds)

\* the output stream runs on the fallback device because no primary device
\* is resolved, and a fault of it is answered on the fallback device
C8_Witness ==
    /\ ~router.stopped /\ router.sink \in Reporting("sink")
    /\ router.primary_device = None /\ router.fallback_device # None
    /\ router.source \in Reporting("source")
    /\ LET r == Report(Cur("stateChanged", StoppedState), router.sink, StoppedState)
       IN r.self.sink # router.sink /\ r.streams[r.self.sink].dev = router.fallback_device

DisconnectBeforeStop(tr) ==
    \A i \in 1..Len(tr) :
        tr[i].ev = "stop" => \E j \in 1..(i - 1) : tr[j] = E("disconnect", tr[i].n)

StartBeforeConnect(tr) ==
    \A i \in 1..Len(tr) :
        tr[i].ev = "connect" => \E j \in 1..(i - 1) : tr[j] = E("start", tr[i].n)

HotSwapOrder(r) == DisconnectBeforeStop(r.trace) /\ StartBeforeConnect(r.trace)

NoCallback(r) ==
    HotSwapOrder(r) /\ ~Has(r.trace, "slot")
        /\ ~Has(r.trace, "sink_changed") /\ ~Has(r.trace, "source_changed")

OneCallback(r, id, state) ==
    HotSwapOrder(r) /\ Count(r.trace, "slot") = 1
        /\ Count(r.trace, "sink_changed") + Count(r.trace, "source_changed") = 1
        /\ Count(r.trace, "build_sink") + Count(r.trace, "build_source") <= 1

\* C9: in router.py every hot-swap unsubscribes the old stream before it
\* stops it and subscribes the new stream only after starting it, so no
\* fault callback runs as a synchronous consequence of a rebuild: a
\* re-evaluation calls none, a fault notification calls exactly the one
\* callback it was delivered to, which rebuilds at most once.
C9_HotSwapOrder ==
    /\ EveryReEvaluation(NoCallback)
    /\ EveryReport("sink", OneCallback)
    /\ EveryReport("source", OneCallback)

Swaps(r, old) == r.self.sink # old /\ Has(r.trace, "stop") /\ Has(r.trace, "connect")

\* a primary-filter change replaces a subscribed, started output stream
C9_Witness ==
    /\ signals.started /\ router.sink \in Reporting("sink")
    /\ \E f \in PrimaryFilters :
        /\ Completed(set_primary_filter(Cur("set_primary_filter", 0), f))
        /\ Swaps(set_primary_filter(Cur("set_primary_filter", 0), f), router.sink)

Earlier(tr, i, e) == \E j \in 1..(i - 1) : tr[j] = e

ShutdownOrder(r) ==
    /\ \A i \in 1..Len(r.trace) :
        /\ r.trace[i].ev = "stop" =>
            /\ Earlier(r.trace, i, E("disconnect", router.source))
            /\ Earlier(r.trace, i, E("unsubscribe", 0))
        /\ r.trace[i] = E("stop", router.sink) => Earlier(r.trace, i, E("stop", router.source))
        /\ r.trace[i].ev = "quit" =>
            /\ Earlier(r.trace, i, E("stop", router.source))
            /\ Earlier(r.trace, i, E("stop", router.sink))
    /\ ~Has(r.trace, "detect_device") /\ ~Has(r.trace, "slot")

Shutdown == [Cur("readyRead", 0) EXCEPT !.sig.sockbuf = <<Command("shutdown")>>]

\* C10: in router-multi.py stop removes the input stream's state-change
\* subscription and the catalog's output-change subscription before it
\* stops any stream, stops the input stream before the output stream, and
\* runs no re-evaluation between its start and the request to quit; the
\* shutdown command of a connected control surface gets as far as the quit.
C10_ShutdownOrder ==
    signals.started /\ ~signals.dead /\ ~signals.quit =>
        /\ ShutdownOrder(stop_multi(Cur("SIGINT", 0)))
        /\ signals.socketOpen =>
            /\ ShutdownOrder(handle_command(Shutdown))
            /\ handle_command(Shutdown).sig.quit

\* both streams are running and subscribed when the shutdown command
\* arrives; it stops both and asks the process to quit
C10_Witness ==
    /\ Alive /\ signals.socketOpen
    /\ router.source \in Reporting("source")
    /\ router.sink # 0 /\ streams[router.sink].state = "live"
    /\ handle_command(Shutdown).sig.quit
    /\ handle_command(Shutdown).streams[router.source].state = "stopped"
    /\ handle_command(Shutdown).streams[router.sink].state = "stopped"

Written == SelectSeq(pump.written, LAMBDA b : b # EmptyBlock)

\* C11: in router.py with boost disabled, the blocks written to the output
\* streams are, in order and without repetition, the blocks read from the
\* input streams up to the one still held: the output lags one block.
C11_PumpOrder ==
    /\ Len(Written) <= Len(pump.readlog)
    /\ Written = SubSeq(pump.readlog, 1, Len(Written))
    /\ pump.readlog # <<>> =>
        /\ Len(Written) = Len(pump.readlog) - 1
        /\ pump.data = pump.readlog[Len(pump.readlog)]

NoOutputYet == HasData /\ router.sink = 0 /\ router.outstream = 0 /\ ~router.stopped

HandledQuietly(r) ==
    /\ ~Has(r.trace, "raise")
    /\ r.pump.written = pump.written
    /\ r.self = router /\ r.streams = streams

\* C19: a data-ready notification that arrives while an input stream exists
\* and no output stream was ever opened raises no error, writes nothing and
\* leaves the routing state as it was.
C19_NoOutputNoError ==
    NoOutputYet =>
        \A samples \in PumpSamples, dead \in DeadWriteOutcomes :
            HandledQuietly(process_input(Cur("readyRead", 0), Block(1, samples), dead))

\* the handler run on the next block, with boost as given
Pumped(samples, boost) ==
    IF pump.variant = "router"
    THEN process_input([Cur("readyRead", 0) EXCEPT !.self.boost = boost],
                       Block(0, samples), "refused")
    ELSE process_input_multi([Cur("readyRead", 0) EXCEPT !.self.boost = boost],
                             Block(0, samples), "refused")

\* the gain the handler applied to the block it has just processed
GainApplied(r) == actual_gain(peak_level(r.pump.peak_history))

Magnitude(x) == IF x < 0 THEN -x ELSE x

\* max |sample|, in the integers
TruePeak(samples) == Max({Magnitude(samples[i]) : i \in 1..Len(samples)})

InRange(v) == v >= Int16Min /\ v <= Int16Max

DefaultGain == [num |-> DefaultGainNum, den |-> DefaultGainDen]

QuietBlockGain(samples) ==
    TruePeak(samples) <= Threshold =>
        /\ GainApplied(Pumped(samples, TRUE)) = DefaultGain
        /\ \A i \in 1..Len(samples) :
            InRange(Trunc(samples[i] * GainApplied(Pumped(samples, TRUE)).num,
                          GainApplied(Pumped(samples, TRUE)).den))

\* C12: a boosted block whose peak magnitude is at most 10369 gets the gain
\* 3.16, whatever was processed before it, and none of its scaled samples
\* leaves the int16 range.
C12_QuietBlockGain == \A samples \in GainSamples : QuietBlockGain(samples)

\* the gain of the block when its peak is the true maximum of |sample|
TrueGain(samples) ==
    actual_gain(peak_level([pump.peak_history EXCEPT ![pump.history_index] = TruePeak(samples)]))

ClampedProduct(samples) ==
    \A i \in 1..Len(samples) :
        Pumped(samples, TRUE).pump.data.samples[i] =
            Clamp16(Trunc(samples[i] * TrueGain(samples).num, TrueGain(samples).den))

\* C13: every boosted output sample is sample * gain clamped into the int16
\* range, never a wrapped-around value, the block peak being the true
\* maximum of |sample| (-32768 included).
C13_Clamped == pump.variant = "router" => \A samples \in GainSamples : ClampedProduct(samples)

SlotWritten(samples) ==
    /\ Pumped(samples, TRUE).pump.peak_history =
            [pump.peak_history EXCEPT ![pump.boosted % HistoryLen] = block_peak(samples)]
    /\ Pumped(samples, TRUE).pump.history_index = (pump.boosted + 1) % HistoryLen
    /\ Pumped(samples, FALSE).pump.peak_history = pump.peak_history
    /\ Pumped(samples, FALSE).pump.history_index = pump.history_index

\* C14: the history cursor lies in 0..999 and is the number of boosted
\* blocks modulo 1000; the k-th boosted block writes its peak to slot
\* (k-1) mod 1000 and to no other slot; a block processed with boost off
\* changes neither the cursor nor a slot.
C14_Cursor ==
    /\ pump.history_index \in 0..(HistoryLen - 1)
    /\ pump.history_index = pump.boosted % HistoryLen
    /\ DOMAIN pump.peak_history = 0..(HistoryLen - 1)
    /\ \A samples \in GainSamples : SlotWritten(samples)

\* the 1001st boosted block has been processed: the cursor is back at 1 and
\* slot 0 holds the peak of that block, a loud one
C14_Witness ==
    /\ pump.boosted = HistoryLen + 1
    /\ pump.history_index = 1
    /\ pump.peak_history[0] > Threshold
    /\ pump.peak_history[1] = block_peak(QuietSamples)

\* a <= b for gains, as fractions with positive denominators
GainLeq(a, b) == a.num * b.den <= b.num * a.den

ColdHistory == \A i \in DOMAIN pump.peak_history : pump.peak_history[i] = 0

SpikeSuppresses(samples) ==
    /\ \A i \in DOMAIN pump.peak_history :
        i # pump.history_index /\ pump.peak_history[i] > Threshold =>
            GainLeq(GainApplied(Pumped(samples, TRUE)),
                    [num |-> FullScale, den |-> pump.peak_history[i]])
    /\ GainApplied(Pumped(samples, TRUE)) =
            actual_gain(Max({block_peak(samples)} \cup
                            {pump.peak_history[i] : i \in DOMAIN pump.peak_history \ {pump.history_index}}))
    /\ ColdHistory /\ TruePeak(samples) > Threshold =>
            GainApplied(Pumped(samples, TRUE)) = [num |-> FullScale, den |-> TruePeak(samples)]

\* C20: with boost on, a block of peak P > 10369 keeps the gain of each of
\* the next 999 blocks at or below 32767/P, the block that overwrites its
\* slot and the ones after it are free of it, and on an all-zero history a
\* first block of peak P > 10369 gets the gain 32767/P.
C20_SpikeWindow == pump.variant = "router" => \A samples \in GainSamples : SpikeSuppresses(samples)

(***************************************************************************)
(* The control channel of router-multi.py.                                 *)
(***************************************************************************)
\* messages that are not JSON or that lack a field their command reads
Malformed ==
    {InvalidMsg, Command("ui_change"), Command("filter_changed"), Command("set_boost")}
    \cup {PartialUiChangeMsg(i) : i \in InputFilters}

\* readyRead with the messages of buf waiting in the socket
Received(buf) == handle_command([Cur("readyRead", 0) EXCEPT !.sig.sockbuf = buf])

Untouched(r) ==
    /\ SameDevicesAndFilters(r.self, router)
    /\ r.self.boost = router.boost
    /\ r.streams = streams

RejectedAlone(m) ==
    /\ Untouched(Received(<<m>>))
    /\ ~Received(<<m>>).sig.quit /\ ~Received(<<m>>).sig.dead
    /\ Has(Received(<<m, Command("get_device_info")>>).trace, "get_device_info")

\* C15: a control message that is not valid JSON or lacks a field its
\* command requires is rejected alone: filters, boost flag, resolved devices
\* and streams stay as they were, the process keeps running, and a
\* well-formed message buffered behind it in the same read is still handled.
C15_MalformedRejected ==
    Alive /\ signals.socketOpen => \A m \in Malformed : RejectedAlone(m)

WellFormed(m) ==
    \/ m.command = "ui_change" /\ {"input", "primary", "fallback"} \subseteq m.has
    \/ m.command = "filter_changed" /\ "primary_filter" \in m.has
    \/ m.command = "get_device_info"

OneReEvaluation(r) == Count(r.trace, "detect_device") = 1

UiChangeApplied(m, r) ==
    /\ r.self.input_filter = m.input
    /\ r.self.fallback_filter = m.fallback
    /\ r.self.primary_filter =
            IF m.primary = NotConnectedText THEN router.primary_filter ELSE m.primary
    /\ r.self.boost = router.boost
    /\ OneReEvaluation(r)

FilterChangedApplied(m, r) ==
    /\ r.self.primary_filter = m.primary_filter
    /\ r.self.input_filter = router.input_filter
    /\ r.self.fallback_filter = router.fallback_filter
    /\ r.self.boost = router.boost
    /\ OneReEvaluation(r)

CommandApplied(m) ==
    CASE m.command = "ui_change" -> UiChangeApplied(m, Received(<<m>>))
      [] m.command = "filter_changed" -> FilterChangedApplied(m, Received(<<m>>))
      [] OTHER -> Untouched(Received(<<m>>)) /\ ~Has(Received(<<m>>).trace, "detect_device")

\* C16: ui_change sets input_filter and fallback_filter from the payload,
\* primary_filter only when the payload's primary is not the "Device not
\* connected" sentinel, then runs exactly one re-evaluation; filter_changed
\* sets primary_filter alone and runs exactly one re-evaluation;
\* get_device_info changes no state.
C16_CommandSemantics ==
    Alive /\ signals.socketOpen =>
        \A m \in {x \in Messages : WellFormed(x)} : CommandApplied(m)

OnlyCurrentSinkLive(r) == \A i \in LiveSinks(r.streams) : i = r.self.sink

\* C17: when a re-evaluation of router-multi.py has finished, every output
\* stream that was started, other than the one held in self.sink, has been
\* stopped.
C17_OldSinksStopped == EveryReEvaluationMulti(OnlyCurrentSinkLive)

NotNested(r) == Count(r.trace, "detect_device") <= 1

\* C18: re-evaluations of router-multi.py never nest: one trigger runs
\* detect_device once, and stopping the old input stream during a hot-swap
\* does not start a second one through the stream's stateChanged subscription.
C18_NoNesting == EveryReEvaluationMulti(NotNested)

(***************************************************************************)
(* After stop().                                                           *)
(***************************************************************************)
\* every event that router.py can still receive, applied to the current state
EveryLaterEvent(P(_)) ==
    /\ \A f \in InputFilters : P(set_input_filter(Cur("set_input_filter", 0), f))
    /\ \A f \in PrimaryFilters : P(set_primary_filter(Cur("set_primary_filter", 0), f))
    /\ \A f \in FallbackFilters : P(set_fallback_filter(Cur("set_fallback_filter", 0), f))
    /\ \A l \in OutputLists :
        P(audioOutputsChanged([Cur("audioOutputsChanged", 0) EXCEPT !.outputs = l]))
    /\ \A id \in Reporting("sink") \cup Reporting("source"), state \in States :
        P(Report(Cur("stateChanged", state), id, state))

NothingOpened(r) == ~Has(r.trace, "open") /\ ~Has(r.trace, "start")

\* C21: in router.py Stopped is terminal: once stop() has run, no stream
\* state-change callback, output catalog event or filter setter opens or
\* rebuilds an input or output stream.
C21_StoppedIsTerminal == router.stopped => EveryLaterEvent(NothingOpened)

ReachesQuit(r) == r.sig.quit

\* C22: shutdown terminates from every running state: in router-multi.py
\* stop() (SIGINT) and the shutdown command reach the request to quit, and
\* in router.py stop() completes, also without a control-surface
\* connection, without an input stream or without an output stream.
C22_ShutdownTerminates ==
    /\ pump.variant = "multi" /\ Alive =>
        /\ ReachesQuit(stop_multi(Cur("SIGINT", 0)))
        /\ signals.socketOpen => ReachesQuit(handle_command(Shutdown))
    /\ pump.variant = "router" /\ signals.started /\ ~router.stopped =>
        Completed(stop(Cur("finished", 0)))

LiveSources(ss) == {i \in 1..Len(ss) : ss[i].kind = "source" /\ IsLive(ss[i])}

\* the device routing points at: primary_device if non-null, else fallback_device
RoutedOutput == TruthyOr(router.primary_device, router.fallback_device)

\* C23: in router.py, between events, a live output stream targets
\* primary_device if that is non-null and fallback_device otherwise, and a
\* live input stream targets input_device.
C23_StreamsFollowDevices ==
    /\ \A i \in LiveSinks(streams) : streams[i].dev = RoutedOutput
    /\ \A i \in LiveSources(streams) : streams[i].dev = router.input_device

\* the primary filter was changed to one that matches nothing: the output
\* plays on the fallback device, the input on the input device
C23_Witness ==
    /\ signals.started /\ ~router.stopped
    /\ router.primary_filter = NoMatchFilter
    /\ router.primary_device = None /\ router.fallback_device = Out2
    /\ router.sink \in LiveSinks(streams) /\ streams[router.sink].dev = Out2
    /\ router.source \in LiveSources(streams)
    /\ streams[router.source].dev = router.input_device

====
